---- MODULE Spec2Model ----
(***************************************************************************)
(* The incremental synchronization engine of modhunt: the loop of          *)
(* modindex.SynchronizeDatabase (src/modindex/db.go), its cursor query     *)
(* lastVersionInfo, its batch writer insertVersions, the sqlite schema of  *)
(* setup, and the index client of src/unnamed/part_000 (GetVersions,       *)
(* pollURL).                                                               *)
(*                                                                         *)
(* Time.  A time.Time is a natural number of tenths of a second; 0 is the  *)
(* zero time.Time.  Timestamps are stored and sent as RFC3339Nano text,    *)
(* which drops trailing fractional zeros, so the text is modelled as the   *)
(* sequence <<seconds, characters...>> and compared the way sqlite         *)
(* compares TEXT (bytewise).                                               *)
(***************************************************************************)
EXTENDS Integers, Sequences, FiniteSets

\* ------------------------------------------------------------------ bounds
\* Longest feed the index serves.
MaxFeed == 3
\* Number of times the command is run against the same index.db.
MaxRuns == 2
\* The batch limit handed to GetVersions (2000 in the source), scaled down.
Limit == 2
\* numWorkers of downloadInfoCommand (50 in the source), scaled down.
NumWorkers == 2
\* Most modules of the lookup that have no latest.json in the cache yet.
MaxModules == 3
\* Most headings of a package list.
MaxHeadings == 3
\* Deepest heading of a package list (6 in Markdown), scaled down.
MaxLevel == 3

\* ---------------------------------------------------------------- universe
Paths == {"p1", "p2"}
Versions == {"v1", "v2"}
\* 1.0 s, 1.5 s and 2.0 s: "..01Z", "..01.5Z", "..02Z" as RFC3339Nano text.
Times == {10, 15, 20}

VersionInfo == [Path : Paths, Version : Versions, Timestamp : Times]
ZeroVersionInfo == [Path |-> "", Version |-> "", Timestamp |-> 0]

Range(s) == {s[i] : i \in 1..Len(s)}

\* time.Time.IsZero
IsZero(t) == t = 0

\* time.Time.Format(time.RFC3339Nano): the seconds, then the fraction only
\* when it is not zero (".5"), then "Z".  46 is '.', 48 is '0', 90 is 'Z'.
Format(t) ==
    IF t % 10 = 0 THEN <<t \div 10, 90>>
    ELSE <<t \div 10, 46, 48 + (t % 10), 90>>

\* time.Parse(time.RFC3339Nano, text)
Parse(text) ==
    IF Len(text) = 2 THEN 10 * text[1]
    ELSE 10 * text[1] + (text[3] - 48)

\* sqlite's comparison of two TEXT values (BINARY collation): the first
\* differing character decides, a proper prefix is smaller.
TextLess(a, b) ==
    LET n == IF Len(a) < Len(b) THEN Len(a) ELSE Len(b)
        diff == {i \in 1..n : a[i] # b[i]}
    IN  IF diff = {} THEN Len(a) < Len(b)
        ELSE LET k == CHOOSE i \in diff : \A j \in diff : i <= j
             IN  a[k] < b[k]

\* ------------------------------------------------------------ index client
\* pollURL formatting `since` with time.RFC3339: the fraction is cut.
pollURLSeconds(since, limit) ==
    [since |-> Format(10 * (since \div 10)),
     limit |-> IF limit > 0 THEN <<limit>> ELSE <<>>]

\* pollURL without the test of line 44: limit is always set.
pollURLAlwaysLimit(since, limit) ==
    [since |-> Format(since), limit |-> <<limit>>]

\* Client.pollURL: the query values of the request, each key with the list
\* of its values (url.Values); `limit` is set only when limit > 0.
pollURL(since, limit) ==
    [since |-> Format(since),
     limit |-> IF limit > 0 THEN <<limit>> ELSE <<>>]

\* The JSON object the index sends for one feed entry.
WireObject(v) ==
    [Path |-> v.Path, Version |-> v.Version, Timestamp |-> Format(v.Timestamp)]

\* json decoding of one object into a VersionInfo.
Decode(o) ==
    [Path |-> o.Path, Version |-> o.Version, Timestamp |-> Parse(o.Timestamp)]

RECURSIVE FirstN(_, _)
FirstN(s, n) ==
    IF n = 0 \/ s = <<>> THEN <<>> ELSE <<Head(s)>> \o FirstN(Tail(s), n - 1)

RECURSIVE DropWhileBefore(_, _)
DropWhileBefore(s, since) ==
    IF s = <<>> THEN <<>>
    ELSE IF Head(s).Timestamp < since THEN DropWhileBefore(Tail(s), since)
    ELSE s

\* What the index answers to a poll: the entries whose timestamp is not
\* before `since` (inclusive), oldest first, at most `limit` of them when
\* the request carries a limit.
IndexResponse(f, url) ==
    LET from == DropWhileBefore(f, Parse(url.since))
        cut == IF url.limit # <<>> THEN FirstN(from, url.limit[1]) ELSE from
    IN  [i \in 1..Len(cut) |-> WireObject(cut[i])]

\* Client.GetVersions on a response body that decodes: the decoded objects
\* in the order received.
GetVersions(body) == [i \in 1..Len(body) |-> Decode(body[i])]

\* A JSON value of the body that dec.Decode rejects.
Malformed == [Path |-> "", Version |-> "", Timestamp |-> <<>>]

\* dec.Decode(&vi) returns nil: the value is an object whose Timestamp is
\* RFC 3339 text.
Decodes(o) == Len(o.Timestamp) > 0

\* The objects of the body before the first one that does not decode.
RECURSIVE DecodedPrefix(_)
DecodedPrefix(body) ==
    IF body = <<>> \/ ~ Decodes(Head(body)) THEN <<>>
    ELSE <<Decode(Head(body))>> \o DecodedPrefix(Tail(body))

\* GetVersions whose decode loop breaks on the error: the objects decoded
\* so far are returned with a nil error.
GetVersionsKeepPrefix(body) ==
    [err |-> FALSE, versions |-> DecodedPrefix(body)]

\* Client.GetVersions with its error result: the decode loop returns
\* (nil, err) at the first value that does not decode.
GetVersionsOrErr(body) ==
    IF \E i \in 1..Len(body) : ~ Decodes(body[i])
    THEN [err |-> TRUE, versions |-> <<>>]
    ELSE [err |-> FALSE, versions |-> GetVersions(body)]

\* No run to compare with yet.
NoRun ==
    [outcome |-> "none", loop |-> "none", run |-> 0, limit |-> 0,
     short |-> FALSE, anomaly |-> FALSE, fault |-> "none",
     requests |-> <<>>, batches |-> 0, paths |-> {}, versions |-> {}]

\* Nothing printed yet.
NoReport ==
    [printed |-> FALSE, target |-> 0, current |-> 0, duration |-> 0,
     done |-> 0, open |-> 0, estimate |-> FALSE, remaining |-> 0]

\* No response read yet.
NoResponse == [status |-> 0, malformed |-> FALSE, decoded |-> 0]

\* ------------------------------------------------------------------ store
\* SelectPathID whose query never matches: every record takes the insert
\* branch.
SelectPathIDMiss(ps, path) == 0

\* SELECT id FROM paths WHERE path = ? ; 0 stands for sql.ErrNoRows.
SelectPathID(ps, path) ==
    IF \E p \in ps : p.path = path
    THEN (CHOOSE p \in ps : p.path = path).id
    ELSE 0

\* The rowid sqlite gives the next row of paths (INTEGER PRIMARY KEY).
NextID(ps) ==
    IF ps = {} THEN 1
    ELSE (CHOOSE p \in ps : \A q \in ps : q.id <= p.id).id + 1

\* PRIMARY KEY(path_id, version) of the versions table.
PrimaryKeyFree(vs, pathID, version) ==
    ~ \E r \in vs : r.path_id = pathID /\ r.version = version

\* path_id INTEGER REFERENCES paths(id), with foreign_keys(1).
ForeignKeyOK(ps, pathID) == \E p \in ps : p.id = pathID

\* lastVersionInfo without the time.Parse of the scanned text: Timestamp
\* stays the zero time.
lastVersionInfoUnparsed(ps, vs) ==
    LET joined == {r \in vs : \E p \in ps : p.id = r.path_id}
        top == {r \in joined :
                    \A o \in joined : ~ TextLess(r.timestamp, o.timestamp)}
    IN  IF joined = {} THEN {ZeroVersionInfo}
        ELSE {[Path |-> (CHOOSE p \in ps : p.id = r.path_id).path,
               Version |-> r.version,
               Timestamp |-> 0] : r \in top}

\* lastVersionInfo: the rows the ORDER BY v.timestamp DESC LIMIT 1 query may
\* return (any row whose timestamp TEXT no other row's exceeds), joined to
\* their path and parsed; the zero VersionInfo on sql.ErrNoRows.
lastVersionInfo(ps, vs) ==
    LET joined == {r \in vs : \E p \in ps : p.id = r.path_id}
        top == {r \in joined :
                    \A o \in joined : ~ TextLess(r.timestamp, o.timestamp)}
    IN  IF joined = {} THEN {ZeroVersionInfo}
        ELSE {[Path |-> (CHOOSE p \in ps : p.id = r.path_id).path,
               Version |-> r.version,
               Timestamp |-> Parse(r.timestamp)] : r \in top}

\* InsertRowStep on a versions table created without its PRIMARY KEY: the
\* INSERT never meets a constraint.
InsertRowStepNoKey(ps, vs, v) ==
    LET found == SelectPathID(ps, v.Path)
        ps2 == IF found = 0
               THEN ps \cup {[id |-> NextID(ps), path |-> v.Path]}
               ELSE ps
        pathID == IF found = 0 THEN NextID(ps) ELSE found
        row == [path_id |-> pathID, version |-> v.Version,
                timestamp |-> Format(v.Timestamp)]
    IN  [ok |-> TRUE, paths |-> ps2, versions |-> vs \cup {row}]

\* InsertRowStep with pathID declared anew in the insert branch (the outer
\* pathID stays 0 for a new path) on a connection opened without the
\* foreign_keys pragma.
InsertRowStepShadowedID(ps, vs, v) ==
    LET found == SelectPathID(ps, v.Path)
        ps2 == IF found = 0
               THEN ps \cup {[id |-> NextID(ps), path |-> v.Path]}
               ELSE ps
        row == [path_id |-> found, version |-> v.Version,
                timestamp |-> Format(v.Timestamp)]
    IN  IF PrimaryKeyFree(vs, found, v.Version)
        THEN [ok |-> TRUE, paths |-> ps2, versions |-> vs \cup {row}]
        ELSE [ok |-> FALSE, paths |-> ps2, versions |-> vs]

\* One pass of the loop body of insertVersions over record v inside the
\* transaction whose view of the tables is (ps, vs).
InsertRowStep(ps, vs, v) ==
    LET found == SelectPathID(ps, v.Path)
        ps2 == IF found = 0
               THEN ps \cup {[id |-> NextID(ps), path |-> v.Path]}
               ELSE ps
        pathID == IF found = 0 THEN NextID(ps) ELSE found
        row == [path_id |-> pathID, version |-> v.Version,
                timestamp |-> Format(v.Timestamp)]
    IN  IF PrimaryKeyFree(vs, pathID, v.Version) /\ ForeignKeyOK(ps2, pathID)
        THEN [ok |-> TRUE, paths |-> ps2, versions |-> vs \cup {row}]
        ELSE [ok |-> FALSE, paths |-> ps2, versions |-> vs]

\* Reconcile dropping the first record of every batch, the first run's too.
ReconcileDropFirst(cursor, batch) ==
    IF Len(batch) > 0 THEN Tail(batch) ELSE batch

\* Reconcile never dropping the overlap.
ReconcileKeepAll(cursor, batch) == batch

\* Reconcile comparing the timestamp alone: a first record that shares the
\* cursor's timestamp is dropped whatever its path and version.
ReconcileByTimestamp(cursor, batch) ==
    IF IsZero(cursor.Timestamp) THEN batch
    ELSE IF Len(batch) > 0 /\ batch[1].Timestamp = cursor.Timestamp
         THEN Tail(batch)
         ELSE batch

\* ------------------------------------------------------------- the merger
\* Lines 62-77 of SynchronizeDatabase: the batch to insert.  `fetched` is
\* not empty when `last` is set and the first record is not `last`.
Reconcile(cursor, batch) ==
    IF IsZero(cursor.Timestamp) THEN batch
    ELSE IF Len(batch) > 0 /\ batch[1].Timestamp = cursor.Timestamp
            /\ batch[1].Path = cursor.Path /\ batch[1].Version = cursor.Version
         THEN Tail(batch)
         ELSE batch

\* Mismatch without the IsZero test of line 63: the first run compares its
\* batch with the zero cursor as well.
MismatchOnFirstRun(cursor, batch) ==
    ~ (Len(batch) > 0 /\ batch[1].Timestamp = cursor.Timestamp
       /\ batch[1].Path = cursor.Path /\ batch[1].Version = cursor.Version)

\* Whether the else branch (the "BUG: index: expected list to start with"
\* report) is taken.
Mismatch(cursor, batch) ==
    /\ ~ IsZero(cursor.Timestamp)
    /\ ~ (Len(batch) > 0 /\ batch[1].Timestamp = cursor.Timestamp
          /\ batch[1].Path = cursor.Path /\ batch[1].Version = cursor.Version)

\* ------------------------------------------------------------------ state
VARIABLES
    feed,              \* the remote index: VersionInfo entries, oldest first
    paths,             \* committed rows of table paths: [id, path]
    versions,          \* committed rows of table versions
    txOpen,            \* a transaction of insertVersions is open
    txPaths,           \* the open transaction's view of paths
    txVersions,        \* the open transaction's view of versions
    pc,                \* idle, polling, merging, persisting, done, failed, panic
    last,              \* the cursor `last`
    fetched,           \* the local `versions`: the batch GetVersions returned
    versionsToInsert,  \* the local `versionsToInsert`
    idx,               \* position of the range loop of insertVersions
    covered,           \* the local `covered`, in tenths of a second
    run,               \* runs of the command started so far
    fault,             \* why the run stopped: none, fetch, storage, constraint, index
    anomaly,           \* the BUG line was written in this iteration
    short,             \* this run got an empty body where the feed had entries
    prev,              \* how the previous run ended
    durable,           \* last record of the batch committed most recently
    batches,           \* batches committed in this run
    response,          \* the HTTP response of the last fetch of this run:
                       \* its status, whether a value of its body did not
                       \* decode, how many values decoded before that
    cancelled,         \* the context of this run is done
    requests,          \* the query values of the fetches issued in this run
    limit,             \* the limit this run hands to GetVersions
    first,             \* the run a second run is compared with
    report,            \* what printProgress printed last, and from what
    toDownload,        \* downloadInfoCommand: the modules to download
    modules,           \* the channel `modules`: its buffer, whether closed
    results,           \* the channel `results`: its buffer, whether closed
    workers,           \* each downloadWorker: where it is, the module it holds
    wg,                \* the counter of the sync.WaitGroup
    remaining,         \* the local `remaining`
    main,              \* where downloadInfoCommand is, and its range index
    saver,             \* where the goroutine reading `results` is
    cache,             \* the modules with a latest.json under ./cache
    takes,             \* per module: times received from `modules`
    yields,            \* per module: dlResults sent to `results`
    handles,           \* per module: dlResults received by the saver
    parser,            \* the package list parser called: awesome or wiki
    headings,          \* the headings of the list not yet read
    heap,              \* the Category objects made, by address; 1 is Root
    cat,               \* the parser's local `cat`, an address
    outcome            \* where parsing and AddSource are, or how they ended

store == <<paths, versions>>
tx == <<txOpen, txPaths, txVersions>>
locals == <<last, fetched, versionsToInsert, idx, covered>>
ghosts == <<fault, anomaly, short, prev, durable, batches>>
env == <<response, cancelled>>
pool == <<toDownload, modules, results, workers, wg, remaining, main, saver,
          cache, takes, yields, handles>>
categories == <<parser, headings, heap, cat, outcome>>
commands == <<pool, categories>>
harness == <<limit, first, report, commands>>
vars == <<feed, paths, versions, txOpen, txPaths, txVersions, pc, last,
          fetched, versionsToInsert, idx, covered, run, fault, anomaly,
          short, prev, durable, batches, response, cancelled, requests,
          limit, first, report, commands>>

\* downloadInfoCommand has not been called.
Modules == 1..MaxModules
Workers == 1..NumWorkers
NoChannel == [buf |-> <<>>, closed |-> FALSE]
PoolIdle ==
    /\ toDownload = <<>>
    /\ modules = NoChannel
    /\ results = NoChannel
    /\ workers = [w \in Workers |-> [pc |-> "none", mod |-> 0]]
    /\ wg = 0
    /\ remaining = 0
    /\ main = [pc |-> "none", i |-> 0]
    /\ saver = "none"
    /\ cache = {}
    /\ takes = [m \in Modules |-> 0]
    /\ yields = [m \in Modules |-> 0]
    /\ handles = [m \in Modules |-> 0]

\* No package list is being parsed.
CategoriesIdle ==
    /\ parser = "none"
    /\ headings = <<>>
    /\ heap = <<>>
    /\ cat = 0
    /\ outcome = "none"

\* The other commands have not been called.
CommandsIdle == PoolIdle /\ CategoriesIdle

RECURSIVE SeqsUpTo(_)
SeqsUpTo(n) ==
    IF n = 0 THEN {<<>>}
    ELSE LET shorter == SeqsUpTo(n - 1)
         IN  shorter \cup {Append(s, v) : s \in {t \in shorter : Len(t) = n - 1},
                                           v \in VersionInfo}

\* Feeds: entries in non-decreasing timestamp order.
Feeds ==
    {f \in SeqsUpTo(MaxFeed) :
        \A i \in 1..Len(f) - 1 : f[i].Timestamp <= f[i + 1].Timestamp}

Init ==
    /\ feed \in Feeds
    /\ paths = {}
    /\ versions = {}
    /\ txOpen = FALSE
    /\ txPaths = {}
    /\ txVersions = {}
    /\ pc = "idle"
    /\ last = ZeroVersionInfo
    /\ fetched = <<>>
    /\ versionsToInsert = <<>>
    /\ idx = 0
    /\ covered = 0
    /\ run = 0
    /\ fault = "none"
    /\ anomaly = FALSE
    /\ short = FALSE
    /\ prev = "none"
    /\ durable = ZeroVersionInfo
    /\ batches = 0
    /\ response = NoResponse
    /\ cancelled = FALSE
    /\ requests = <<>>
    /\ limit = Limit
    /\ first = NoRun
    /\ report = NoReport
    /\ CommandsIdle

Stopped == pc \in {"idle", "done", "failed", "panic"}

\* How a stopped run is remembered by the next one.
Outcome ==
    IF pc = "idle" THEN "none"
    ELSE IF pc = "done" /\ short THEN "done-short"
    ELSE pc

\* A new process: the open transaction of a failed run is gone with the old
\* process, the locals are fresh.
NewProcess ==
    /\ Stopped
    /\ run < MaxRuns
    /\ run' = run + 1
    /\ prev' = Outcome
    /\ txOpen' = FALSE
    /\ txPaths' = {}
    /\ txVersions' = {}
    /\ fetched' = <<>>
    /\ versionsToInsert' = <<>>
    /\ idx' = 0
    /\ covered' = 0
    /\ anomaly' = FALSE
    /\ short' = FALSE
    /\ batches' = 0
    /\ response' = NoResponse
    /\ cancelled' = FALSE
    /\ requests' = <<>>
    /\ UNCHANGED harness
    /\ UNCHANGED <<feed, paths, versions, durable>>

\* SynchronizeDatabase whose setup creates the two tables anew instead of
\* IF NOT EXISTS: the run starts on empty tables.
SynchronizeDatabaseRecreate ==
    /\ Stopped
    /\ run < MaxRuns
    /\ run' = run + 1
    /\ prev' = Outcome
    /\ paths' = {}
    /\ versions' = {}
    /\ txOpen' = FALSE
    /\ txPaths' = {}
    /\ txVersions' = {}
    /\ fetched' = <<>>
    /\ versionsToInsert' = <<>>
    /\ idx' = 0
    /\ covered' = 0
    /\ anomaly' = FALSE
    /\ short' = FALSE
    /\ batches' = 0
    /\ last' = ZeroVersionInfo
    /\ pc' = "polling"
    /\ fault' = "none"
    /\ response' = NoResponse
    /\ cancelled' = FALSE
    /\ requests' = <<>>
    /\ UNCHANGED harness
    /\ UNCHANGED <<feed, durable>>

\* SynchronizeDatabase up to the loop: setup, then lastVersionInfo.
SynchronizeDatabase ==
    /\ NewProcess
    /\ \E l \in lastVersionInfo(paths, versions) : last' = l
    /\ pc' = "polling"
    /\ fault' = "none"

\* setup or lastVersionInfo returns an error.
SetupErr ==
    /\ NewProcess
    /\ last' = ZeroVersionInfo
    /\ pc' = "failed"
    /\ fault' = "storage"

\* The HTTP responses a poll may get.  With status 200 the body is the
\* index's answer, the answer with one value that does not decode, or a
\* body that holds no object.  With a non-success status (502) the body
\* holds no object, or one value that does not decode.
Responses(answer) ==
    {[status |-> 200, body |-> b] : b \in {answer, <<>>}}
    \cup {[status |-> 200, body |-> [answer EXCEPT ![k] = Malformed]] :
              k \in 1..Len(answer)}
    \cup {[status |-> 502, body |-> b] : b \in {<<>>, <<Malformed>>}}

\* Poll issued without waiting for the batch before it: the next fetch
\* starts while the transaction of the last batch is still being written.
PollPipelined ==
    /\ pc \in {"polling", "persisting"}
    /\ ~ cancelled
    /\ requests' = Append(requests, pollURL(last.Timestamp, limit))
    /\ LET answer == IndexResponse(feed, pollURL(last.Timestamp, limit))
       IN  \E r \in Responses(answer) :
              LET got == GetVersionsOrErr(r.body)
              IN  /\ fetched' = got.versions
                  /\ pc' = IF got.err THEN "failed" ELSE "merging"
                  /\ fault' = IF got.err THEN "decode" ELSE fault
                  /\ short' = (short \/ r.body # answer)
                  /\ response' =
                         [status |-> r.status,
                          malformed |-> \E i \in 1..Len(r.body) :
                                           ~ Decodes(r.body[i]),
                          decoded |-> Len(DecodedPrefix(r.body))]
    /\ UNCHANGED <<feed, store, tx, last, versionsToInsert, idx, covered, run,
                   anomaly, prev, durable, batches, cancelled, harness>>

\* client.GetVersions(ctx, last.Timestamp, 2000) reads a response: the
\* batch is whatever the body holds, the status of the response is not
\* read; a value that does not decode is an error and ends the run (lines
\* 53-55).  With the context done, httpClient.Do returns an error instead
\* (PollErr).
Poll ==
    /\ pc = "polling"
    /\ ~ cancelled
    /\ requests' = Append(requests, pollURL(last.Timestamp, limit))
    /\ LET answer == IndexResponse(feed, pollURL(last.Timestamp, limit))
       IN  \E r \in Responses(answer) :
              LET got == GetVersionsOrErr(r.body)
              IN  /\ fetched' = got.versions
                  /\ pc' = IF got.err THEN "failed" ELSE "merging"
                  /\ fault' = IF got.err THEN "decode" ELSE fault
                  /\ short' = (short \/ r.body # answer)
                  /\ response' =
                         [status |-> r.status,
                          malformed |-> \E i \in 1..Len(r.body) :
                                           ~ Decodes(r.body[i]),
                          decoded |-> Len(DecodedPrefix(r.body))]
    /\ UNCHANGED <<feed, store, tx, last, versionsToInsert, idx, covered, run,
                   anomaly, prev, durable, batches, cancelled, harness>>

\* PollErr inside a retry loop: the error is logged and the fetch repeated.
PollErrRetry ==
    /\ pc = "polling"
    /\ pc' = "polling"
    /\ fault' = "fetch"
    /\ response' = NoResponse
    /\ requests' = Append(requests, pollURL(last.Timestamp, limit))
    /\ UNCHANGED <<feed, store, tx, locals, run, anomaly, short, prev, durable,
                   batches, cancelled, harness>>

\* client.GetVersions returns a transport error: no response was read.
PollErr ==
    /\ pc = "polling"
    /\ pc' = "failed"
    /\ fault' = "fetch"
    /\ response' = NoResponse
    /\ requests' = Append(requests, pollURL(last.Timestamp, limit))
    /\ UNCHANGED <<feed, store, tx, locals, run, anomaly, short, prev, durable,
                   batches, cancelled, harness>>

\* The context passed to SynchronizeDatabase is cancelled while the run is
\* under way.
Cancel ==
    /\ pc \in {"polling", "merging", "persisting"}
    /\ ~ cancelled
    /\ cancelled' = TRUE
    /\ UNCHANGED <<feed, store, tx, pc, locals, run, ghosts, response>>
    /\ UNCHANGED <<requests, harness>>

\* Merge without the end test of lines 79-82: an empty batch is handed to
\* insertVersions like any other.
MergeNoEndTest ==
    /\ pc = "merging"
    /\ IF Mismatch(last, fetched) /\ Len(fetched) = 0
       THEN /\ pc' = "panic"
            /\ fault' = "index"
            /\ anomaly' = FALSE
            /\ UNCHANGED versionsToInsert
       ELSE /\ versionsToInsert' = Reconcile(last, fetched)
            /\ anomaly' = Mismatch(last, fetched)
            /\ pc' = "persisting"
            /\ UNCHANGED fault
    /\ UNCHANGED <<feed, store, tx, last, fetched, idx, covered, run, short,
                   prev, durable, batches, env>>
    /\ UNCHANGED <<requests, harness>>

\* Lines 62-82: reconcile the batch with the cursor, stop when nothing is
\* left.  The report of the else branch reads versions[0]: with an empty
\* batch that is an index out of range.
Merge ==
    /\ pc = "merging"
    /\ IF Mismatch(last, fetched) /\ Len(fetched) = 0
       THEN /\ pc' = "panic"
            /\ fault' = "index"
            /\ anomaly' = FALSE
            /\ UNCHANGED versionsToInsert
       ELSE /\ versionsToInsert' = Reconcile(last, fetched)
            /\ anomaly' = Mismatch(last, fetched)
            /\ pc' = IF Len(Reconcile(last, fetched)) = 0 THEN "done"
                     ELSE "persisting"
            /\ UNCHANGED fault
    /\ UNCHANGED <<feed, store, tx, last, fetched, idx, covered, run, short,
                   prev, durable, batches, env>>
    /\ UNCHANGED <<requests, harness>>

\* BeginTx followed by a DELETE FROM versions: the batch replaces the table.
BeginTxTruncate ==
    /\ pc = "persisting"
    /\ ~ txOpen
    /\ ~ cancelled
    /\ txOpen' = TRUE
    /\ txPaths' = paths
    /\ txVersions' = {}
    /\ idx' = 1
    /\ UNCHANGED <<feed, store, pc, last, fetched, versionsToInsert, covered,
                   run, ghosts, env>>
    /\ UNCHANGED <<requests, harness>>

\* insertVersions: db.BeginTx(ctx, nil); with the context done it returns
\* the error of the context (BeginTxErr).
BeginTx ==
    /\ pc = "persisting"
    /\ ~ txOpen
    /\ ~ cancelled
    /\ txOpen' = TRUE
    /\ txPaths' = paths
    /\ txVersions' = versions
    /\ idx' = 1
    /\ UNCHANGED <<feed, store, pc, last, fetched, versionsToInsert, covered,
                   run, ghosts, env>>
    /\ UNCHANGED <<requests, harness>>

BeginTxErr ==
    /\ pc = "persisting"
    /\ ~ txOpen
    /\ pc' = "failed"
    /\ fault' = "storage"
    /\ UNCHANGED <<feed, store, tx, locals, run, anomaly, short, prev, durable,
                   batches, env>>
    /\ UNCHANGED <<requests, harness>>

\* InsertRow with the statements run on db instead of tx: every row is
\* committed as it is written.
InsertRowAutocommit ==
    /\ pc = "persisting"
    /\ txOpen
    /\ idx <= Len(versionsToInsert)
    /\ LET r == InsertRowStep(txPaths, txVersions, versionsToInsert[idx])
       IN  /\ txPaths' = r.paths
           /\ txVersions' = r.versions
           /\ paths' = r.paths
           /\ versions' = r.versions
           /\ IF r.ok
              THEN /\ idx' = idx + 1
                   /\ UNCHANGED <<pc, fault>>
              ELSE /\ pc' = "failed"
                   /\ fault' = "constraint"
                   /\ UNCHANGED idx
    /\ UNCHANGED <<feed, txOpen, last, fetched, versionsToInsert,
                   covered, run, anomaly, short, prev, durable, batches, env>>
    /\ UNCHANGED <<requests, harness>>

\* insertVersions: one pass of the range loop.  A constraint the schema
\* states makes the INSERT fail; the function returns and the transaction is
\* left as it is.
InsertRow ==
    /\ pc = "persisting"
    /\ txOpen
    /\ idx <= Len(versionsToInsert)
    /\ LET r == InsertRowStep(txPaths, txVersions, versionsToInsert[idx])
       IN  /\ txPaths' = r.paths
           /\ txVersions' = r.versions
           /\ IF r.ok
              THEN /\ idx' = idx + 1
                   /\ UNCHANGED <<pc, fault>>
              ELSE /\ pc' = "failed"
                   /\ fault' = "constraint"
                   /\ UNCHANGED idx
    /\ UNCHANGED <<feed, store, txOpen, last, fetched, versionsToInsert,
                   covered, run, anomaly, short, prev, durable, batches, env>>
    /\ UNCHANGED <<requests, harness>>

\* insertVersions: a statement of the pass fails in the driver: the SELECT
\* or the INSERT INTO paths (nothing written by this pass), or the INSERT
\* INTO versions (the path row of this pass is written).
InsertRowErr ==
    /\ pc = "persisting"
    /\ txOpen
    /\ idx <= Len(versionsToInsert)
    /\ \E stmt \in {"path", "version"} :
          txPaths' = IF stmt = "version"
                     THEN InsertRowStep(txPaths, txVersions,
                                        versionsToInsert[idx]).paths
                     ELSE txPaths
    /\ pc' = "failed"
    /\ fault' = "storage"
    /\ UNCHANGED <<feed, store, txOpen, txVersions, locals, run, anomaly,
                   short, prev, durable, batches, env>>
    /\ UNCHANGED <<requests, harness>>

\* The tables after tx.Commit.
Committed == <<txPaths, txVersions>>

\* covered counting only the span inside the batch: the step from the
\* cursor to the first new record is left out.
CoveredWithinBatch(cursor, batch, c) ==
    IF IsZero(cursor.Timestamp)
    THEN batch[Len(batch)].Timestamp - batch[1].Timestamp
    ELSE c + (batch[Len(batch)].Timestamp - batch[1].Timestamp)

\* covered after a batch (lines 95-99).
Covered(cursor, batch, c) ==
    IF IsZero(cursor.Timestamp)
    THEN batch[Len(batch)].Timestamp - batch[1].Timestamp
    ELSE c + (batch[Len(batch)].Timestamp - cursor.Timestamp)

\* Commit followed by lastVersionInfo: the cursor is read back from the
\* store instead of being taken from the batch.
CommitRereadCursor ==
    /\ pc = "persisting"
    /\ txOpen
    /\ idx > Len(versionsToInsert)
    /\ ~ cancelled
    /\ paths' = Committed[1]
    /\ versions' = Committed[2]
    /\ txOpen' = FALSE
    /\ txPaths' = {}
    /\ txVersions' = {}
    /\ covered' = Covered(last, versionsToInsert, covered)
    /\ \E l \in lastVersionInfo(txPaths, txVersions) : last' = l
    /\ durable' = versionsToInsert[Len(versionsToInsert)]
    /\ batches' = batches + 1
    /\ pc' = "polling"
    /\ UNCHANGED <<feed, fetched, versionsToInsert, idx, run, fault, anomaly,
                   short, prev, env>>
    /\ UNCHANGED <<requests, harness>>

\* Commit of a transaction begun with db.Begin(): the context of the run
\* plays no part in it.
CommitIgnoringContext ==
    /\ pc = "persisting"
    /\ txOpen
    /\ idx > Len(versionsToInsert)
    /\ paths' = Committed[1]
    /\ versions' = Committed[2]
    /\ txOpen' = FALSE
    /\ txPaths' = {}
    /\ txVersions' = {}
    /\ covered' = Covered(last, versionsToInsert, covered)
    /\ last' = versionsToInsert[Len(versionsToInsert)]
    /\ durable' = versionsToInsert[Len(versionsToInsert)]
    /\ batches' = batches + 1
    /\ pc' = "polling"
    /\ UNCHANGED <<feed, fetched, versionsToInsert, idx, run, fault, anomaly,
                   short, prev, env>>
    /\ UNCHANGED <<requests, harness>>

\* tx.Commit succeeds; insertVersions returns nil; lines 88-105 advance
\* covered and the cursor.  The transaction is bound to ctx: with the context
\* done it is rolled back and Commit returns an error (CommitErr).
Commit ==
    /\ pc = "persisting"
    /\ txOpen
    /\ idx > Len(versionsToInsert)
    /\ ~ cancelled
    /\ paths' = Committed[1]
    /\ versions' = Committed[2]
    /\ txOpen' = FALSE
    /\ txPaths' = {}
    /\ txVersions' = {}
    /\ covered' = Covered(last, versionsToInsert, covered)
    /\ last' = versionsToInsert[Len(versionsToInsert)]
    /\ durable' = versionsToInsert[Len(versionsToInsert)]
    /\ batches' = batches + 1
    /\ pc' = "polling"
    /\ UNCHANGED <<feed, fetched, versionsToInsert, idx, run, fault, anomaly,
                   short, prev, env>>
    /\ UNCHANGED <<requests, harness>>

CommitErr ==
    /\ pc = "persisting"
    /\ txOpen
    /\ idx > Len(versionsToInsert)
    /\ pc' = "failed"
    /\ fault' = "storage"
    /\ UNCHANGED <<feed, store, tx, locals, run, anomaly, short, prev, durable,
                   batches, env>>
    /\ UNCHANGED <<requests, harness>>

Next ==
    \/ SynchronizeDatabase
    \/ SetupErr
    \/ Poll
    \/ PollErr
    \/ Cancel
    \/ Merge
    \/ BeginTx
    \/ BeginTxErr
    \/ InsertRow
    \/ InsertRowErr
    \/ Commit
    \/ CommitErr

Spec == Init /\ [][Next]_vars

\* ------------------------------------------------------- the legacy loop
\* indexCommand (src/commands.go) and updateCmd (indexcmd.go): the loop
\* SynchronizeDatabase was made from.  Its positions are legacy-polling,
\* legacy-checking, legacy-persisting, legacy-done and legacy-failed.

\* One pass of the legacy range loop on the tables of the transaction: the
\* SELECT, the INSERT INTO paths on sql.ErrNoRows, and INSERT OR REPLACE
\* INTO versions, which removes the row that holds the primary key.
LegacyInsertRowStep(ps, vs, v) ==
    LET found == SelectPathID(ps, v.Path)
        id == IF found = 0 THEN NextID(ps) ELSE found
        ps2 == IF found = 0 THEN ps \cup {[id |-> id, path |-> v.Path]} ELSE ps
        row == [path_id |-> id, version |-> v.Version,
                timestamp |-> Format(v.Timestamp)]
        kept == {r \in vs : ~ (r.path_id = id /\ r.version = v.Version)}
    IN  [ok |-> ForeignKeyOK(ps2, id), paths |-> ps2,
         versions |-> kept \cup {row}]

\* The legacy command up to its loop: the two CREATE TABLE IF NOT EXISTS,
\* then the cursor query, the one of lastVersionInfo.
LegacyStart ==
    /\ NewProcess
    /\ first.outcome = "none"
    /\ \E l \in lastVersionInfo(paths, versions) : last' = l
    /\ pc' = "legacy-polling"
    /\ fault' = "none"

\* client.GetVersions(ctx, last.Timestamp, 2000) in the legacy loop.
LegacyPoll ==
    /\ pc = "legacy-polling"
    /\ requests' = Append(requests, pollURL(last.Timestamp, limit))
    /\ LET answer == IndexResponse(feed, pollURL(last.Timestamp, limit))
       IN  \E r \in Responses(answer) :
              LET got == GetVersionsOrErr(r.body)
              IN  /\ fetched' = got.versions
                  /\ pc' = IF got.err THEN "legacy-failed"
                           ELSE "legacy-checking"
                  /\ fault' = IF got.err THEN "decode" ELSE fault
                  /\ short' = (short \/ r.body # answer)
                  /\ response' =
                         [status |-> r.status,
                          malformed |-> \E i \in 1..Len(r.body) :
                                           ~ Decodes(r.body[i]),
                          decoded |-> Len(DecodedPrefix(r.body))]
    /\ UNCHANGED <<feed, store, tx, last, versionsToInsert, idx, covered, run,
                   anomaly, prev, durable, batches, cancelled, harness>>

\* The end test of the legacy loop: an empty batch, or a batch that holds
\* the cursor alone.
LegacyUpToDate(cursor, batch) ==
    \/ Len(batch) = 0
    \/ /\ Len(batch) = 1
       /\ batch[1].Path = cursor.Path
       /\ batch[1].Version = cursor.Version
       /\ batch[1].Timestamp = cursor.Timestamp

LegacyCheck ==
    /\ pc = "legacy-checking"
    /\ pc' = IF LegacyUpToDate(last, fetched) THEN "legacy-done"
             ELSE "legacy-persisting"
    /\ UNCHANGED <<feed, store, tx, locals, run, ghosts, env, requests,
                   harness>>

\* db.BeginTx of the legacy loop.
LegacyBeginTx ==
    /\ pc = "legacy-persisting"
    /\ ~ txOpen
    /\ txOpen' = TRUE
    /\ txPaths' = paths
    /\ txVersions' = versions
    /\ idx' = 1
    /\ UNCHANGED <<feed, store, pc, last, fetched, versionsToInsert, covered,
                   run, ghosts, env, requests, harness>>

\* Whether the pass for batch[i] is the `continue` of the legacy loop: the
\* first record, with a cursor set, equal to the cursor.
LegacySkips(cursor, batch, i) ==
    /\ i = 1
    /\ ~ IsZero(cursor.Timestamp)
    /\ batch[i].Path = cursor.Path
    /\ batch[i].Version = cursor.Version
    /\ batch[i].Timestamp = cursor.Timestamp

\* One pass of the legacy range loop over the fetched batch.
LegacyInsertRow ==
    /\ pc = "legacy-persisting"
    /\ txOpen
    /\ idx <= Len(fetched)
    /\ IF LegacySkips(last, fetched, idx)
       THEN UNCHANGED <<txPaths, txVersions, covered, anomaly, pc, fault>>
       ELSE LET r == LegacyInsertRowStep(txPaths, txVersions, fetched[idx])
            IN  /\ txPaths' = r.paths
                /\ txVersions' = r.versions
                /\ anomaly' = (anomaly \/
                                 (idx = 1 /\ ~ IsZero(last.Timestamp)))
                /\ covered' = IF idx > 1
                              THEN covered + (fetched[idx].Timestamp
                                              - fetched[idx - 1].Timestamp)
                              ELSE covered
                /\ pc' = IF r.ok THEN pc ELSE "legacy-failed"
                /\ fault' = IF r.ok THEN fault ELSE "constraint"
    /\ idx' = idx + 1
    /\ UNCHANGED <<feed, store, txOpen, last, fetched, versionsToInsert, run,
                   short, prev, durable, batches, env, requests, harness>>

\* tx.Commit of the legacy loop; the cursor becomes the last record of the
\* fetched batch.  A run that commits a new record in every batch commits
\* at most MaxFeed batches; the count is followed one batch further.
LegacyCommit ==
    /\ pc = "legacy-persisting"
    /\ txOpen
    /\ idx > Len(fetched)
    /\ batches <= MaxFeed
    /\ paths' = Committed[1]
    /\ versions' = Committed[2]
    /\ txOpen' = FALSE
    /\ txPaths' = {}
    /\ txVersions' = {}
    /\ last' = fetched[Len(fetched)]
    /\ durable' = fetched[Len(fetched)]
    /\ batches' = batches + 1
    /\ pc' = "legacy-polling"
    /\ UNCHANGED <<feed, fetched, versionsToInsert, idx, covered, run, fault,
                   anomaly, short, prev, env, requests, harness>>

\* ------------------------------------------------- two runs side by side
\* One run of either loop from a given store, then SynchronizeDatabase
\* once more from the same store, possibly with another limit: `first`
\* keeps the start store until the first run has ended and the outcome of
\* the first run from then on.

\* The tables after the records of s were written one by one to (ps, vs).
RECURSIVE Loaded(_, _, _)
Loaded(s, ps, vs) ==
    IF s = <<>> THEN <<ps, vs>>
    ELSE LET r == InsertRowStep(ps, vs, Head(s))
         IN  Loaded(Tail(s), r.paths, r.versions)

\* No module version is listed twice.
UniqueKeys(f) ==
    \A i, j \in 1..Len(f) :
        (f[i].Path = f[j].Path /\ f[i].Version = f[j].Version) => i = j

\* The limits a run is tried with; 0 is a request without limit.
Limits == 0..Limit

\* The module versions in the order the index lists them.
Listing ==
    <<[Path |-> "p1", Version |-> "v1"], [Path |-> "p1", Version |-> "v2"],
      [Path |-> "p2", Version |-> "v1"], [Path |-> "p2", Version |-> "v2"]>>

\* The feeds the two runs are tried on: the i-th entry is the i-th module
\* version of the listing, at any timestamps in order.
PairFeeds ==
    {f \in Feeds :
        /\ Len(f) <= Len(Listing)
        /\ \A i \in 1..Len(f) :
              f[i].Path = Listing[i].Path /\ f[i].Version = Listing[i].Version}

\* The store holds the first k records of the feed, loaded at a time the
\* index had no more.
InitPair ==
    /\ feed \in PairFeeds
    /\ \E k \in 0..Len(feed) :
          /\ paths = Loaded(SubSeq(feed, 1, k), {}, {})[1]
          /\ versions = Loaded(SubSeq(feed, 1, k), {}, {})[2]
    /\ first = [NoRun EXCEPT !.paths = paths, !.versions = versions]
    /\ limit \in Limits
    /\ txOpen = FALSE
    /\ txPaths = {}
    /\ txVersions = {}
    /\ pc = "idle"
    /\ last = ZeroVersionInfo
    /\ fetched = <<>>
    /\ versionsToInsert = <<>>
    /\ idx = 0
    /\ covered = 0
    /\ run = 0
    /\ fault = "none"
    /\ anomaly = FALSE
    /\ short = FALSE
    /\ prev = "none"
    /\ durable = ZeroVersionInfo
    /\ batches = 0
    /\ response = NoResponse
    /\ cancelled = FALSE
    /\ requests = <<>>
    /\ report = NoReport
    /\ CommandsIdle

\* The first run has ended, and the index answered all its fetches as it
\* answers: its outcome is kept, the store is put back to what it was before
\* the run, and the command is ready to be run again.
Rewind ==
    /\ pc \in {"done", "failed", "panic", "legacy-done", "legacy-failed"}
    /\ first.outcome = "none"
    /\ ~ short
    /\ fault \notin {"fetch", "decode", "storage"}
    /\ first' = [outcome |-> IF pc = "legacy-done" THEN "done"
                             ELSE IF pc = "legacy-failed" THEN "failed"
                             ELSE pc,
                 loop |-> IF pc \in {"legacy-done", "legacy-failed"}
                          THEN "legacy" ELSE "modindex",
                 run |-> run,
                 limit |-> limit,
                 short |-> short,
                 anomaly |-> anomaly,
                 fault |-> fault,
                 requests |-> requests,
                 batches |-> batches,
                 paths |-> paths,
                 versions |-> versions]
    /\ paths' = first.paths
    /\ versions' = first.versions
    /\ limit' \in Limits
    /\ txOpen' = FALSE
    /\ txPaths' = {}
    /\ txVersions' = {}
    /\ pc' = "idle"
    /\ last' = ZeroVersionInfo
    /\ fetched' = <<>>
    /\ versionsToInsert' = <<>>
    /\ idx' = 0
    /\ covered' = 0
    /\ fault' = "none"
    /\ anomaly' = FALSE
    /\ short' = FALSE
    /\ prev' = "none"
    /\ durable' = ZeroVersionInfo
    /\ batches' = 0
    /\ response' = NoResponse
    /\ cancelled' = FALSE
    /\ requests' = <<>>
    /\ UNCHANGED <<feed, run, report, commands>>

NextPair ==
    \/ SynchronizeDatabase
    \/ Poll
    \/ Merge
    \/ BeginTx
    \/ InsertRow
    \/ Commit
    \/ LegacyStart
    \/ LegacyPoll
    \/ LegacyCheck
    \/ LegacyBeginTx
    \/ LegacyInsertRow
    \/ LegacyCommit
    \/ Rewind

SpecPair == InitPair /\ [][NextPair]_vars

\* --------------------------------------------------------- progress report
\* The loop as printProgress sees it: the cursor and the covered span after
\* each batch, on timestamps that lie hours apart, and the clock.

\* Go's integer division and its float-to-int64 conversion: toward zero.
Quot(a, b) ==
    IF (a >= 0) = (b > 0) THEN a \div b ELSE -((-a) \div b)

\* int64(d.Hours()): the whole hours of a span of tenths of a second.
Hours(d) == Quot(d, 36000)

\* printProgress working on the spans themselves instead of whole hours.
printProgressExact(cursor, start, c, now) ==
    IF IsZero(cursor.Timestamp) THEN NoReport
    ELSE [printed |-> TRUE,
          target |-> now,
          current |-> cursor.Timestamp,
          duration |-> now - start,
          done |-> Hours(c),
          open |-> Hours(now - cursor.Timestamp),
          estimate |-> c # 0,
          remaining |-> IF c # 0
                        THEN Quot((now - cursor.Timestamp) * (now - start), c)
                        ELSE 0]

\* printProgress (lines 111-141): what one call prints.  `remaining` is
\* expectedRemainingRuntime, in the unit of `duration`.
printProgress(cursor, start, c, now) ==
    IF IsZero(cursor.Timestamp) THEN NoReport
    ELSE LET duration == now - start
             coveredHours == Hours(c)
             openHours == Hours(now - cursor.Timestamp)
         IN  [printed |-> TRUE,
              target |-> now,
              current |-> cursor.Timestamp,
              duration |-> duration,
              done |-> coveredHours,
              open |-> openHours,
              estimate |-> coveredHours > 0,
              remaining |-> IF coveredHours > 0
                            THEN Quot(openHours * duration, coveredHours)
                            ELSE 0]

\* Feed timestamps half an hour to two and a half hours after the zero
\* time.
HourTimes == {18000, 36000, 54000, 90000}
HourRecords == [Path : {"p1"}, Version : {"v1"}, Timestamp : HourTimes]

\* start := time.Now() (line 39): four hours after the zero time.
ProgressStart == 144000
\* time.Now() in printProgress: at the start, 30 s and 90 s into the run.
ProgressClock == {ProgressStart, ProgressStart + 300, ProgressStart + 900}

\* The batches to insert: one or two records in feed order, none before
\* the cursor.
HourBatches(cursor) ==
    {b \in {<<v>> : v \in HourRecords}
              \cup {<<v, w>> : v \in HourRecords, w \in HourRecords} :
        /\ \A i \in 1..Len(b) : b[i].Timestamp >= cursor.Timestamp
        /\ \A i \in 1..(Len(b) - 1) : b[i].Timestamp <= b[i + 1].Timestamp}

\* The loop is entered with the cursor lastVersionInfo found and nothing
\* covered (lines 29-40).
InitProgress ==
    /\ feed = <<>>
    /\ paths = {}
    /\ versions = {}
    /\ txOpen = FALSE
    /\ txPaths = {}
    /\ txVersions = {}
    /\ pc = "progress"
    /\ last \in {ZeroVersionInfo} \cup HourRecords
    /\ fetched = <<>>
    /\ versionsToInsert = <<>>
    /\ idx = 0
    /\ covered = 0
    /\ run = 1
    /\ fault = "none"
    /\ anomaly = FALSE
    /\ short = FALSE
    /\ prev = "none"
    /\ durable = ZeroVersionInfo
    /\ batches = 0
    /\ response = NoResponse
    /\ cancelled = FALSE
    /\ requests = <<>>
    /\ limit = Limit
    /\ first = NoRun
    /\ report = NoReport
    /\ CommandsIdle

\* Line 43: the report at the top of an iteration.  The clock does not run
\* backwards.
PrintProgress ==
    /\ pc = "progress"
    /\ \E now \in ProgressClock :
          /\ now >= report.target
          /\ report' = printProgress(last, ProgressStart, covered, now)
    /\ pc' = "polling"
    /\ UNCHANGED <<feed, store, tx, last, fetched, versionsToInsert, idx,
                   covered, run, fault, anomaly, short, prev, durable,
                   batches, env, requests, limit, first, commands>>

\* Lines 52-104 when a batch was fetched and inserted: covered and the
\* cursor move on.
ProgressBatch ==
    /\ pc = "polling"
    /\ batches < MaxFeed
    /\ \E b \in HourBatches(last) :
          /\ versionsToInsert' = b
          /\ covered' = Covered(last, b, covered)
          /\ last' = b[Len(b)]
    /\ batches' = batches + 1
    /\ pc' = "progress"
    /\ UNCHANGED <<feed, store, tx, fetched, idx, run, fault, anomaly, short,
                   prev, durable, env, requests, harness>>

NextProgress ==
    \/ PrintProgress
    \/ ProgressBatch

SpecProgress == InitProgress /\ [][NextProgress]_vars

\* ------------------------------------------------------------ worker pool
\* downloadInfoCommand (src/commands.go): the modules without a latest.json
\* are sent through the channel `modules` to numWorkers downloadWorkers,
\* whose dlResults go through the channel `results` to one goroutine that
\* saves them.  Both channels have room for every module.  A send on a
\* closed channel panics and ends the process.

\* The synchronization loop is at rest while the command runs.
sync == <<feed, store, tx, pc, locals, run, ghosts, env, requests, limit,
          first, report>>

\* toDownload: the modules of lookup.Packages not yet in the cache, in the
\* order the map was ranged over.
DownloadLists ==
    {s \in UNION {[1..n -> Modules] : n \in 0..MaxModules} :
        \A i, j \in 1..Len(s) : s[i] = s[j] => i = j}

InitDownload ==
    /\ feed = <<>>
    /\ paths = {}
    /\ versions = {}
    /\ txOpen = FALSE
    /\ txPaths = {}
    /\ txVersions = {}
    /\ pc = "idle"
    /\ last = ZeroVersionInfo
    /\ fetched = <<>>
    /\ versionsToInsert = <<>>
    /\ idx = 0
    /\ covered = 0
    /\ run = 0
    /\ fault = "none"
    /\ anomaly = FALSE
    /\ short = FALSE
    /\ prev = "none"
    /\ durable = ZeroVersionInfo
    /\ batches = 0
    /\ response = NoResponse
    /\ cancelled = FALSE
    /\ requests = <<>>
    /\ limit = Limit
    /\ first = NoRun
    /\ report = NoReport
    /\ toDownload \in DownloadLists
    /\ modules = NoChannel
    /\ results = NoChannel
    /\ workers = [w \in Workers |-> [pc |-> "none", mod |-> 0]]
    /\ wg = 0
    /\ remaining = 0
    /\ main = [pc |-> "start", i |-> 0]
    /\ saver = "none"
    /\ cache = {}
    /\ takes = [m \in Modules |-> 0]
    /\ yields = [m \in Modules |-> 0]
    /\ handles = [m \in Modules |-> 0]
    /\ CategoriesIdle

\* No goroutine has panicked and downloadInfoCommand has not returned.
Alive == main.pc \notin {"panic", "returned"}

\* Lines 388-415: the channels, wg.Add(numWorkers), the workers and the
\* saver are started.
DownloadInfoStart ==
    /\ main.pc = "start"
    /\ modules' = NoChannel
    /\ results' = NoChannel
    /\ wg' = NumWorkers
    /\ workers' = [w \in Workers |-> [pc |-> "range", mod |-> 0]]
    /\ remaining' = Len(toDownload)
    /\ saver' = "range"
    /\ main' = [pc |-> "sending", i |-> 1]
    /\ UNCHANGED <<toDownload, cache, takes, yields, handles, sync, categories>>

\* Lines 417-419: modules <- name.  The buffer holds len(toDownload).
MainSend ==
    /\ main.pc = "sending"
    /\ main.i <= Len(toDownload)
    /\ Len(modules.buf) < Len(toDownload)
    /\ modules' = [modules EXCEPT !.buf = Append(@, toDownload[main.i])]
    /\ main' = [main EXCEPT !.i = @ + 1]
    /\ UNCHANGED <<toDownload, results, workers, wg, remaining, saver, cache,
                   takes, yields, handles, sync, categories>>

\* Line 420: close(modules).
MainCloseModules ==
    /\ main.pc = "sending"
    /\ main.i > Len(toDownload)
    /\ modules' = [modules EXCEPT !.closed = TRUE]
    /\ main' = [main EXCEPT !.pc = "waiting"]
    /\ UNCHANGED <<toDownload, results, workers, wg, remaining, saver, cache,
                   takes, yields, handles, sync, categories>>

\* close(results) without wg.Wait().
MainCloseResultsNoWait ==
    /\ main.pc = "waiting"
    /\ results' = [results EXCEPT !.closed = TRUE]
    /\ main' = [main EXCEPT !.pc = "draining"]
    /\ UNCHANGED <<toDownload, modules, workers, wg, remaining, saver, cache,
                   takes, yields, handles, sync, categories>>

\* Lines 422-423: wg.Wait() returns when the counter is zero, then
\* close(results).
MainCloseResults ==
    /\ main.pc = "waiting"
    /\ wg = 0
    /\ results' = [results EXCEPT !.closed = TRUE]
    /\ main' = [main EXCEPT !.pc = "draining"]
    /\ UNCHANGED <<toDownload, modules, workers, wg, remaining, saver, cache,
                   takes, yields, handles, sync, categories>>

\* Lines 425-427: <-saveDone, return nil.
MainReturn ==
    /\ main.pc = "draining"
    /\ saver = "done"
    /\ main' = [main EXCEPT !.pc = "returned"]
    /\ UNCHANGED <<toDownload, modules, results, workers, wg, remaining,
                   saver, cache, takes, yields, handles, sync, categories>>

\* Line 363: a worker receives the next module.
WorkerRecv(w) ==
    /\ Alive
    /\ workers[w].pc = "range"
    /\ modules.buf # <<>>
    /\ modules' = [modules EXCEPT !.buf = Tail(@)]
    /\ workers' = [workers EXCEPT ![w] = [pc |-> "download",
                                          mod |-> Head(modules.buf)]]
    /\ takes' = [takes EXCEPT ![Head(modules.buf)] = @ + 1]
    /\ UNCHANGED <<toDownload, results, wg, remaining, main, saver, cache,
                   yields, handles, sync, categories>>

\* Lines 364-365: the download ends with or without an error and the
\* dlResult is sent; the send panics when `results` is closed.
WorkerSend(w) ==
    /\ Alive
    /\ workers[w].pc = "download"
    /\ IF results.closed
       THEN /\ main' = [main EXCEPT !.pc = "panic"]
            /\ UNCHANGED <<results, workers, yields>>
       ELSE /\ Len(results.buf) < Len(toDownload)
            /\ \E err \in BOOLEAN :
                  results' = [results EXCEPT !.buf =
                                 Append(@, [module |-> workers[w].mod,
                                            err |-> err])]
            /\ workers' = [workers EXCEPT ![w] = [pc |-> "range", mod |-> 0]]
            /\ yields' = [yields EXCEPT ![workers[w].mod] = @ + 1]
            /\ UNCHANGED main
    /\ UNCHANGED <<toDownload, modules, wg, remaining, saver, cache, takes,
                   handles, sync, categories>>

\* Lines 363 and 362: `modules` is closed and drained, the range ends and
\* the deferred wg.Done() runs.
WorkerExit(w) ==
    /\ Alive
    /\ workers[w].pc = "range"
    /\ modules.buf = <<>>
    /\ modules.closed
    /\ workers' = [workers EXCEPT ![w] = [pc |-> "done", mod |-> 0]]
    /\ wg' = wg - 1
    /\ UNCHANGED <<toDownload, modules, results, remaining, main, saver,
                   cache, takes, yields, handles, sync, categories>>

\* Lines 401-413: the saver receives a dlResult, counts it and, when the
\* download had no error, saves it; save may fail.
SaverRecv ==
    /\ Alive
    /\ saver = "range"
    /\ results.buf # <<>>
    /\ results' = [results EXCEPT !.buf = Tail(@)]
    /\ remaining' = remaining - 1
    /\ handles' = [handles EXCEPT ![Head(results.buf).module] = @ + 1]
    /\ \E saved \in BOOLEAN :
          cache' = IF ~ Head(results.buf).err /\ saved
                   THEN cache \cup {Head(results.buf).module}
                   ELSE cache
    /\ UNCHANGED <<toDownload, modules, workers, wg, main, saver, takes,
                   yields, sync, categories>>

\* Lines 401 and 414: `results` is closed and drained, close(saveDone).
SaverExit ==
    /\ Alive
    /\ saver = "range"
    /\ results.buf = <<>>
    /\ results.closed
    /\ saver' = "done"
    /\ UNCHANGED <<toDownload, modules, results, workers, wg, remaining,
                   main, cache, takes, yields, handles, sync, categories>>

NextDownload ==
    \/ DownloadInfoStart
    \/ MainSend
    \/ MainCloseModules
    \/ MainCloseResults
    \/ MainReturn
    \/ \E w \in Workers : WorkerRecv(w)
    \/ \E w \in Workers : WorkerSend(w)
    \/ \E w \in Workers : WorkerExit(w)
    \/ SaverRecv
    \/ SaverExit

SpecDownload == InitDownload /\ [][NextDownload]_vars

\* ---------------------------------------------------------- category tree
\* ParseAwesomeGoReadme and ParseGoWikiProjects (src/pkglists) turn the
\* headings of a package list into a tree of Category objects under the
\* Root of a Source, and Lookup.AddSource checks every Category of the tree
\* (checkCategory).  A Category is known by its address; 0 is nil.

\* A heading as the parsers see it: its level and its title.  "" is a
\* heading without text, "# Resources" ends the awesome list, "Dead
\* projects" is one of the headings the wiki parser skips.
Titles == {"", "Tools", "Resources", "Dead projects"}
Headings == [level : 1..MaxLevel, title : Titles]

HeadingLists == UNION {[1..n -> Headings] : n \in 0..MaxHeadings}

\* &lookup.Category{Level: 0, Name: "root"}
RootCategory ==
    [Level |-> 0, Name |-> "root", Parent |-> 0, Categories |-> <<>>]

\* The walk up the Parent pointers stopping one step late: at the first
\* Category whose Level is not greater than `level`.
RECURSIVE AscendWhileGreater(_, _, _)
AscendWhileGreater(h, c, level) ==
    LET p == h[c].Parent
    IN  IF p = 0 THEN 0
        ELSE IF h[p].Level > level THEN AscendWhileGreater(h, p, level)
        ELSE p

\* for cat = cat.Parent; cat.Level >= level; cat = cat.Parent {}: the
\* Category the loop ends on, or nil when cat.Level is read through a nil
\* Parent.
RECURSIVE Ascend(_, _, _)
Ascend(h, c, level) ==
    LET p == h[c].Parent
    IN  IF p = 0 THEN 0
        ELSE IF h[p].Level >= level THEN Ascend(h, p, level)
        ELSE p

\* The parent of a heading of this level read while `cat` is c.
ParentFor(h, c, level) ==
    IF level <= h[c].Level THEN Ascend(h, c, level) ELSE c

\* checkCategory: "" when the Category passes, else the error.
checkCategory(h, c, root) ==
    IF h[c].Name = "" THEN "category has no name"
    ELSE IF h[c].Level < 0 THEN "negative level"
    ELSE IF root THEN ""
    ELSE IF h[c].Parent = 0 THEN "no parent"
    ELSE IF \A i \in 1..Len(h[h[c].Parent].Categories) :
                h[h[c].Parent].Categories[i] # c
         THEN "not found in parent"
    ELSE ""

\* addCategory over c.Categories from the i-th on: the first error, or "".
RECURSIVE addCategories(_, _, _)
\* addCategory: checkCategory, then the Categories in order.
RECURSIVE addCategory(_, _, _)
addCategories(h, c, i) ==
    IF i > Len(h[c].Categories) THEN ""
    ELSE LET e == addCategory(h, h[c].Categories[i], FALSE)
         IN  IF e # "" THEN e ELSE addCategories(h, c, i + 1)
addCategory(h, c, root) ==
    IF checkCategory(h, c, root) # "" THEN checkCategory(h, c, root)
    ELSE addCategories(h, c, 1)

InitCategories ==
    /\ feed = <<>>
    /\ paths = {}
    /\ versions = {}
    /\ txOpen = FALSE
    /\ txPaths = {}
    /\ txVersions = {}
    /\ pc = "idle"
    /\ last = ZeroVersionInfo
    /\ fetched = <<>>
    /\ versionsToInsert = <<>>
    /\ idx = 0
    /\ covered = 0
    /\ run = 0
    /\ fault = "none"
    /\ anomaly = FALSE
    /\ short = FALSE
    /\ prev = "none"
    /\ durable = ZeroVersionInfo
    /\ batches = 0
    /\ response = NoResponse
    /\ cancelled = FALSE
    /\ requests = <<>>
    /\ limit = Limit
    /\ first = NoRun
    /\ report = NoReport
    /\ PoolIdle
    /\ parser \in {"awesome", "wiki"}
    /\ headings \in HeadingLists
    /\ heap = <<RootCategory>>
    /\ cat = 1
    /\ outcome = "parsing"

\* A heading becomes a Category: the parent is found, the Category is made
\* and appended to the parent's Categories, and `cat` points to it.  The
\* parser panics when the walk reads the Level of a nil Parent.
NewCategory(level, title) ==
    LET parent == ParentFor(heap, cat, level)
        new == Len(heap) + 1
    IN  IF parent = 0
        THEN /\ outcome' = "panic"
             /\ UNCHANGED <<heap, cat>>
        ELSE /\ heap' = Append([heap EXCEPT ![parent].Categories =
                                               Append(@, new)],
                               [Level |-> level, Name |-> title,
                                Parent |-> parent, Categories |-> <<>>])
             /\ cat' = new
             /\ UNCHANGED outcome

\* ParseAwesomeGoReadme, state readCategoryTitle (lines 221-239): the line
\* "# Resources" ends the list, any other heading is a category.
AwesomeHeading ==
    /\ parser = "awesome"
    /\ outcome = "parsing"
    /\ headings # <<>>
    /\ IF Head(headings) = [level |-> 1, title |-> "Resources"]
       THEN /\ headings' = <<>>
            /\ UNCHANGED <<heap, cat, outcome>>
       ELSE /\ headings' = Tail(headings)
            /\ NewCategory(Head(headings).level, Head(headings).title)
    /\ UNCHANGED <<parser, sync, pool>>

\* ParseGoWikiProjects (lines 35-56): the headings of skipHeadings are
\* passed over, any other heading is a category.
WikiHeading ==
    /\ parser = "wiki"
    /\ outcome = "parsing"
    /\ headings # <<>>
    /\ headings' = Tail(headings)
    /\ IF Head(headings).title = "Dead projects"
       THEN UNCHANGED <<heap, cat, outcome>>
       ELSE NewCategory(Head(headings).level, Head(headings).title)
    /\ UNCHANGED <<parser, sync, pool>>

\* The list is read to its end: return source, nil.
ParseReturn ==
    /\ outcome = "parsing"
    /\ headings = <<>>
    /\ outcome' = "parsed"
    /\ UNCHANGED <<parser, headings, heap, cat, sync, pool>>

\* Lookup.AddSource (lines 53-57): addCategory(s.Root, true).
AddSource ==
    /\ outcome = "parsed"
    /\ outcome' = IF addCategory(heap, 1, TRUE) = "" THEN "added"
                  ELSE addCategory(heap, 1, TRUE)
    /\ UNCHANGED <<parser, headings, heap, cat, sync, pool>>

NextCategories ==
    \/ AwesomeHeading
    \/ WikiHeading
    \/ ParseReturn
    \/ AddSource

SpecCategories == InitCategories /\ [][NextCategories]_vars

\* ----------------------------------------------------------------- claims
\* The committed Version rows as (path, version, timestamp) records.
StoredRecords ==
    {[Path |-> (CHOOSE p \in paths : p.id = r.path_id).path,
      Version |-> r.version,
      Timestamp |-> Parse(r.timestamp)] :
        r \in {q \in versions : \E p \in paths : p.id = q.path_id}}

\* Faults that come from outside the program: the network and the driver.
Injected == {"fetch", "decode", "storage"}

\* C1: when a run whose fetches were all answered under the inclusive-since
\* convention reaches DONE, the store holds every feed record exactly once
\* and nothing else.
C1_NoLossNoDuplicate ==
    (pc = "done" /\ ~ short) =>
        /\ StoredRecords = Range(feed)
        /\ Cardinality(versions) = Cardinality(Range(feed))

\* A feed of MaxFeed distinct records drained in more than one batch, the
\* last fetch answering only the cursor.
C1_Witness ==
    /\ pc = "done"
    /\ ~ short
    /\ Len(feed) = MaxFeed
    /\ Cardinality(Range(feed)) = MaxFeed
    /\ batches >= 2
    /\ fetched = <<last>>
    /\ StoredRecords = Range(feed)

\* C2: a fetch that returns zero records ends the loop in DONE at the merge
\* (the step that is not the cancellation of the context), whatever the
\* cursor: nothing is written, no transaction is opened, the run does
\* not fail or crash, and no further step of the run follows.
C2_EmptyFetchEndsDone ==
    [][/\ (pc = "merging" /\ fetched = <<>> /\ cancelled' = cancelled) =>
              (pc' = "done" /\ UNCHANGED store /\ ~ txOpen')
       /\ (pc = "done" /\ fetched = <<>> /\ run' = run) =>
              UNCHANGED <<pc, fetched, paths, versions>>]_vars

\* C3: with a cursor set, a fetched batch holding only the cursor ends the
\* loop in DONE at the merge (the step that is not the cancellation of the
\* context): no transaction is opened, no row is written, and the run takes
\* no further step (no further fetch).
C3_CursorOnlyBatchEndsDone ==
    [][/\ (/\ pc = "merging"
           /\ ~ IsZero(last.Timestamp)
           /\ fetched = <<last>>
           /\ cancelled' = cancelled) =>
              (/\ pc' = "done"
               /\ UNCHANGED <<paths, versions, txOpen, txPaths, txVersions>>
               /\ ~ txOpen)
       /\ (pc = "done" /\ run' = run) =>
              UNCHANGED <<pc, fetched, paths, versions, txOpen>>]_vars

\* Empty store, first fetch two versions of p1, second fetch the cursor
\* alone: DONE with exactly two Version rows, both under p1.
C3_Witness ==
    /\ pc = "done"
    /\ run = 1
    /\ batches = 1
    /\ ~ IsZero(last.Timestamp)
    /\ fetched = <<last>>
    /\ Cardinality(versions) = 2
    /\ \A r \in StoredRecords : r.Path = "p1"
    /\ Cardinality(paths) = 1

\* C4: after a run that reached DONE, a second run against the same feed
\* does not fail of its own (it reaches DONE) and leaves exactly the rows
\* of the first.
C4_ReplayIdempotent ==
    (prev = "done" /\ ~ short) =>
        /\ pc \in {"failed", "panic"} => fault \in Injected
        /\ StoredRecords = Range(feed)
        /\ Cardinality(versions) = Cardinality(Range(feed))

\* C5: the committed tables change only by the successful commit of a whole
\* batch; a step that fails the run, at any record and any statement,
\* leaves paths and versions as they were before the batch began.
C5_AtomicBatchFailure ==
    [][/\ pc' = "failed" => UNCHANGED store
       /\ (store' # store) =>
              (/\ pc = "persisting" /\ pc' = "polling"
               /\ txOpen /\ idx > Len(versionsToInsert)
               /\ store' = <<txPaths, txVersions>>)]_vars

\* A batch that failed after its first record: the transaction had written
\* a version row and a path row, and neither is in the store.
C5_Witness ==
    /\ pc = "failed"
    /\ fault \in {"storage", "constraint"}
    /\ txOpen
    /\ idx >= 2
    /\ txVersions \ versions # {}
    /\ txPaths \ paths # {}

\* A feed no uninterrupted run has trouble with: every (path, version) once
\* and no two entries with the same timestamp.
PlainFeed ==
    \A i, j \in 1..Len(feed) :
        i < j => /\ feed[i].Timestamp < feed[j].Timestamp
                 /\ <<feed[i].Path, feed[i].Version>> #
                        <<feed[j].Path, feed[j].Version>>

\* C6: after a run that ended in FAILED, the next run starts from the last
\* record of the last committed batch and, against the same feed, does not
\* fail of its own and ends with the whole feed stored.  Stated for the
\* feeds on which a run that is never interrupted reaches DONE.
C6_ResumeAfterFailure ==
    (prev = "failed" /\ PlainFeed) =>
        /\ (pc = "polling" /\ batches = 0) => last = durable
        /\ (~ short /\ pc \in {"failed", "panic"}) => fault \in Injected
        /\ (~ short /\ pc = "done") => StoredRecords = Range(feed)

\* C7: a non-empty batch that does not start with the cursor is reported
\* and handed on whole by the merge (the step that is not the cancellation
\* of the context), and the run does not fail because of it.
C7_AnomalyNonFatal ==
    [][/\ (/\ pc = "merging"
           /\ Mismatch(last, fetched)
           /\ Len(fetched) > 0
           /\ cancelled' = cancelled) =>
              (anomaly' /\ versionsToInsert' = fetched /\ pc' = "persisting")
       /\ (anomaly /\ pc' = "failed") => fault' \in Injected]_vars

\* The rows of vs under path string `path` with version `version`.
RowsFor(ps, vs, path, version) ==
    {r \in vs : r.version = version /\
                \E p \in ps : p.id = r.path_id /\ p.path = path}

\* C8: writing a record whose (path, version) is already in the table does
\* not fail the batch: the row is replaced and carries the new timestamp
\* (the step is the write, not the cancellation of the context).
C8_InsertOrReplace ==
    [][(/\ pc = "persisting" /\ txOpen /\ idx <= Len(versionsToInsert)
        /\ RowsFor(txPaths, txVersions, versionsToInsert[idx].Path,
                   versionsToInsert[idx].Version) # {}
        /\ fault' \notin Injected
        /\ cancelled' = cancelled) =>
           (/\ pc' = "persisting"
            /\ \A r \in RowsFor(txPaths', txVersions',
                                versionsToInsert[idx].Path,
                                versionsToInsert[idx].Version) :
                   r.timestamp = Format(versionsToInsert[idx].Timestamp))]_vars

\* C9: no two Version rows of the store share (path, version).
C9_UniquePathVersion ==
    \A path \in Paths, version \in Versions :
        Cardinality(RowsFor(paths, versions, path, version)) <= 1

\* The second run met the primary key on a store that already holds rows.
C9_Witness ==
    /\ run = 2
    /\ pc = "failed"
    /\ fault = "constraint"
    /\ Cardinality(versions) >= 2

\* C10: every Version row's path_id is the id of a Path row.
C10_ReferentialIntegrity ==
    \A r \in versions : \E p \in paths : p.id = r.path_id

\* Rows under two paths are stored, and a later batch has failed.
C10_Witness ==
    /\ pc = "failed"
    /\ batches >= 1
    /\ Cardinality(paths) = 2
    /\ Cardinality(versions) >= 2
    /\ txPaths # {}

C12_CursorIsStoredRow ==
    (pc = "polling") =>
        /\ (versions # {}) => last \in StoredRecords
        /\ IsZero(last.Timestamp) => versions = {}

\* The second run read its cursor from the store and has advanced it.
C12_Witness ==
    /\ pc = "polling"
    /\ run = 2
    /\ batches >= 1
    /\ Cardinality(versions) >= 2
    /\ last \in StoredRecords

\* C17: the cursor a run starts with is the zero record exactly when the
\* store has no Version row, and otherwise a stored row whose timestamp is
\* the latest of all stored rows.
C17_CursorIsChronologicalMax ==
    (pc = "polling" /\ batches = 0) =>
        /\ (versions = {}) <=> (last = ZeroVersionInfo)
        /\ (versions # {}) =>
               /\ last \in StoredRecords
               /\ \A r \in StoredRecords : r.Timestamp <= last.Timestamp

\* C18: deriving the cursor at the start of a run, on an empty or a
\* non-empty store, leaves the tables paths and versions as they were.
C18_CursorReadOnly ==
    [][(run' = run + 1) => UNCHANGED <<paths, versions>>]_vars

\* A second run has read its cursor from a store that holds rows.
C18_Witness ==
    /\ pc = "polling"
    /\ run = 2
    /\ batches = 0
    /\ versions # {}
    /\ last \in StoredRecords

\* C19: no step removes a (path, version) from the committed store, and
\* every Path row stays, with its id and its path string.
C19_NeverDeletes ==
    [][/\ \A path \in Paths, version \in Versions :
              RowsFor(paths, versions, path, version) # {} =>
                  RowsFor(paths', versions', path, version) # {}
       /\ paths \subseteq paths']_vars

\* The rows of a first run that failed are still there after the second
\* run has added to them.
C19_Witness ==
    /\ run = 2
    /\ prev = "failed"
    /\ batches >= 1
    /\ Cardinality(versions) = 3
    /\ Cardinality(paths) = 2

\* No two rows of ps hold the same path string or the same id.
UniquePaths(ps) ==
    \A p, q \in ps : (p.path = q.path \/ p.id = q.id) => p = q

\* C20: no two Path rows hold the same path string; a pass of the insert
\* loop leaves exactly one Path row for its record's path, adds none when
\* the path was known, and the Version row it writes references that row.
C20_PathRowsReadThenInsert ==
    [][/\ UniquePaths(paths') /\ UniquePaths(txPaths')
       /\ (pc = "persisting" /\ txOpen /\ idx' = idx + 1) =>
              LET v == versionsToInsert[idx]
              IN  /\ Cardinality({p \in txPaths' : p.path = v.Path}) = 1
                  /\ (\E p \in txPaths : p.path = v.Path) =>
                         txPaths' = txPaths
                  /\ Cardinality(txPaths') <= Cardinality(txPaths) + 1
                  /\ \A r \in txVersions' \ txVersions :
                         \E p \in txPaths' :
                             p.id = r.path_id /\ p.path = v.Path]_vars

\* One batch wrote two versions of a path not seen before: one Path row.
C20_Witness ==
    /\ pc = "polling"
    /\ run = 1
    /\ batches = 1
    /\ Cardinality(paths) = 1
    /\ Cardinality(versions) = 2
    /\ \A r \in versions : \E p \in paths : p.id = r.path_id

\* C13: a fetch that fails at the network or HTTP layer makes the run abort
\* with an error: a step of the fetch that reads a non-success response ends
\* in FAILED, and a run is never DONE after a non-success response.
C13_FailedFetchAborts ==
    [][/\ (pc = "polling" /\ response'.status = 502) =>
              (pc' = "failed" /\ fault' \in {"fetch", "decode"})
       /\ (pc' = "done") => response'.status = 200]_vars

C15_FatalErrorsEndRun ==
    [][/\ (fault' # fault /\ fault' \in Injected \cup {"constraint"}) =>
              pc' = "failed"
       /\ (pc \in {"done", "failed"} /\ run' = run) =>
              UNCHANGED <<pc, store, tx, fetched, response, fault>>]_vars

\* A storage error in the middle of a batch, after an earlier batch was
\* committed, ended the run.
C15_Witness ==
    /\ pc = "failed"
    /\ fault = "storage"
    /\ batches >= 1
    /\ txOpen
    /\ idx > 1

C21_OverlapStripping ==
    [][/\ (/\ pc = "merging"
           /\ ~ IsZero(last.Timestamp)
           /\ Len(fetched) > 0
           /\ cancelled' = cancelled) =>
              versionsToInsert' =
                 IF fetched[1] = last THEN Tail(fetched) ELSE fetched
       /\ (/\ batches' = batches + 1
           /\ ~ IsZero(last.Timestamp)
           /\ fetched[1] = last) =>
              StoredRecords' = StoredRecords \cup Range(Tail(fetched))]_vars

\* A later batch began with the cursor and had more records: all the rows
\* of fetched[2..] are written in the transaction, the cursor is not.
C21_Witness ==
    /\ pc = "persisting"
    /\ batches >= 1
    /\ Len(fetched) >= 2
    /\ fetched[1] = last
    /\ versionsToInsert = Tail(fetched)
    /\ txOpen
    /\ idx > Len(versionsToInsert)

\* C22: with the zero cursor the merge hands on the fetched batch unchanged
\* and reports no anomaly, and the commit that follows stores exactly the
\* records of the batch.
C22_FirstRunKeepsBatch ==
    [][/\ (pc = "merging" /\ IsZero(last.Timestamp) /\ cancelled' = cancelled) =>
              /\ versionsToInsert' = fetched
              /\ ~ anomaly'
              /\ pc' \in {"persisting", "done"}
       /\ (batches' = batches + 1 /\ IsZero(last.Timestamp)) =>
              StoredRecords' = Range(fetched)]_vars

\* The first batch of the first run, two records, is committed whole.
C22_Witness ==
    /\ run = 1
    /\ pc = "polling"
    /\ batches = 1
    /\ Len(fetched) = 2
    /\ Cardinality(versions) = 2
    /\ StoredRecords = Range(fetched)
    /\ ~ anomaly

\* The Version row that writing record v adds under the paths ps.
RowOf(ps, v) ==
    [path_id |-> SelectPathID(ps, v.Path), version |-> v.Version,
     timestamp |-> Format(v.Timestamp)]

\* C23: within a run the cursor changes only in the step that commits a
\* batch, and becomes the last record of that batch; the rows of a batch
\* are written one at a time in the order received; a step that fails the
\* run leaves the cursor as it is.
C23_CursorFollowsCommit ==
    [][(run' = run) =>
          /\ (last' # last) =>
                 /\ txOpen /\ ~ txOpen'
                 /\ batches' = batches + 1
                 /\ versions' = txVersions
                 /\ last' = versionsToInsert[Len(versionsToInsert)]
          /\ (batches' # batches) =>
                 last' = versionsToInsert[Len(versionsToInsert)]
          /\ (pc' \in {"failed", "panic"}) => last' = last
          /\ (txVersions' # txVersions /\ txOpen /\ txOpen') =>
                 /\ idx' = idx + 1
                 /\ txVersions' =
                       txVersions \cup {RowOf(txPaths', versionsToInsert[idx])}]_vars

\* A batch was committed and the cursor is its last record although
\* lastVersionInfo would return another row of the store.
C23_Witness ==
    /\ pc = "polling"
    /\ batches >= 1
    /\ last = versionsToInsert[Len(versionsToInsert)]
    /\ last \notin lastVersionInfo(paths, versions)

\* The steps a run may take from one position of the loop to the next; a
\* run ends in done or failed, or in the crash of the merge.
LoopOrder ==
    {<<"polling", "merging">>, <<"polling", "failed">>,
     <<"merging", "persisting">>, <<"merging", "done">>,
     <<"merging", "panic">>,
     <<"persisting", "polling">>, <<"persisting", "failed">>}

\* C24: a run starts at the fetch and goes fetch, merge, persist, fetch,
\* ...: a response is read only at the fetch and with no transaction open,
\* the batch to insert is set only by the merge, a transaction is begun only
\* in the persist step, once per batch, and the next fetch is reached from
\* the persist step only by the commit of that transaction.
C24_SequentialLoop ==
    [][/\ (run' # run) => pc' \in {"polling", "failed"}
       /\ (run' = run) =>
              /\ (pc' # pc) => <<pc, pc'>> \in LoopOrder
              /\ (fetched' # fetched \/ response' # response) =>
                     (pc = "polling" /\ ~ txOpen)
              /\ (versionsToInsert' # versionsToInsert) => pc = "merging"
              /\ (~ txOpen /\ txOpen') =>
                     (pc = "persisting" /\ pc' = "persisting" /\ idx' = 1)
              /\ (txOpen /\ ~ txOpen') => batches' = batches + 1
              /\ (pc = "persisting" /\ pc' = "polling") =>
                     (txOpen /\ ~ txOpen' /\ batches' = batches + 1)
              /\ (pc \in {"polling", "merging"}) => ~ txOpen]_vars

\* One run went three times round the loop: two batches committed, the
\* third fetch ended it.
C24_Witness ==
    /\ run = 1
    /\ pc = "done"
    /\ batches = 2
    /\ ~ txOpen
    /\ Cardinality(versions) = 3

\* C25: every fetch of a run issues one request; its `since` is the
\* cursor's timestamp as RFC3339Nano text (the zero time when there is no
\* cursor), its `limit` is the limit of the run, the same for every fetch,
\* and is present exactly when that limit is greater than zero.
C25_FetchRequest ==
    [][/\ (pc \in {"polling", "legacy-polling"} /\ pc' # pc) =>
              requests' =
                 Append(requests,
                        [since |-> Format(last.Timestamp),
                         limit |-> IF limit > 0 THEN <<limit>> ELSE <<>>])
       /\ (requests' # requests /\ requests' # <<>>) =>
              /\ pc \in {"polling", "legacy-polling"}
              /\ limit' = limit]_vars

\* SynchronizeDatabase run without a limit: its second request carries the
\* cursor's timestamp and no limit.
C25_Witness ==
    /\ pc = "merging"
    /\ limit = 0
    /\ Len(requests) = 2
    /\ ~ IsZero(last.Timestamp)
    /\ requests[2] = [since |-> Format(last.Timestamp), limit |-> <<>>]
    /\ requests[1].since = Format(0)

\* The second of two runs from the same store has ended, and the index
\* answered all its fetches as it answers.
SecondRunEnded ==
    /\ first.outcome # "none"
    /\ run = first.run + 1
    /\ pc \in {"done", "failed", "panic"}
    /\ ~ short
    /\ fault \notin Injected

\* C28: two runs of SynchronizeDatabase from the empty store against the
\* same feed (timestamps strictly increasing), with limits L1 >= 1 and
\* L2 >= 1, both end in DONE and leave the same store.
C28_LimitIndependence ==
    (/\ SecondRunEnded
     /\ first.loop = "modindex"
     /\ PlainFeed
     /\ requests[1].since = Format(0)
     /\ first.limit >= 1
     /\ limit >= 1) =>
        /\ first.outcome = "done"
        /\ pc = "done"
        /\ paths = first.paths
        /\ versions = first.versions

\* C29: a run of the legacy loop and a run of SynchronizeDatabase from the
\* same store against the same feed with the same limit, neither of which
\* met a batch that did not begin with its cursor, issue the same requests,
\* commit the same number of batches, end in the same state and leave the
\* same store.
C29_LegacyEquivalence ==
    (/\ SecondRunEnded
     /\ first.loop = "legacy"
     /\ limit = first.limit
     /\ ~ anomaly
     /\ ~ first.anomaly) =>
        /\ pc = first.outcome
        /\ requests = first.requests
        /\ batches = first.batches
        /\ paths = first.paths
        /\ versions = first.versions

\* C27: a first run against a feed that lists no module version twice,
\* whose fetches the index answers as it answers, does not end in FAILED or
\* in a crash of its own: the only way it stops is DONE.
C27_TerminatesInDone ==
    (/\ run = 1
     /\ UniqueKeys(feed)
     /\ ~ short
     /\ pc \in {"failed", "panic"}) =>
        fault \in Injected

\* C30: insertVersions is never entered with an empty batch, and every
\* batch that is committed holds a record other than the cursor the
\* iteration began with.
C30_IterationProgress ==
    [][/\ (pc' = "persisting") => Len(versionsToInsert') > 0
       /\ (~ txOpen /\ txOpen') => Len(versionsToInsert) > 0
       /\ (batches' = batches + 1) =>
              \E i \in 1..Len(versionsToInsert) : versionsToInsert[i] # last]_vars

\* The second batch of a run began with the cursor; what was committed is
\* the rest of it.
C30_Witness ==
    /\ pc = "polling"
    /\ batches = 2
    /\ Len(fetched) >= 2
    /\ versionsToInsert = Tail(fetched)
    /\ last = versionsToInsert[Len(versionsToInsert)]
    /\ fetched[1] # last

\* The whole hours in a span that is not negative.
WholeHours(d) == CHOOSE h \in 0..(d \div 36000 + 1) :
                    36000 * h <= d /\ d < 36000 * (h + 1)

\* C26 as stated: a report is printed only when the cursor is set; it
\* carries an estimate exactly when the covered span is not zero, and the
\* estimate is open span * elapsed duration / covered span.
C26_EstimateFromSpans ==
    [][(pc = "progress" /\ pc' = "polling") =>
          /\ report'.printed <=> ~ IsZero(last.Timestamp)
          /\ report'.printed =>
                /\ report'.estimate <=> covered # 0
                /\ report'.estimate =>
                      LET open == report'.target - last.Timestamp
                          q == report'.remaining
                      IN  /\ q * covered <= open * report'.duration
                          /\ open * report'.duration < (q + 1) * covered]_vars

\* C26 as the code has it: a report is printed only when the cursor is
\* set; it carries an estimate exactly when at least one whole hour is
\* covered, and the estimate is whole open hours * elapsed duration /
\* whole covered hours, whole hours being rounded down.
C26_EstimateFromWholeHours ==
    [][(pc = "progress" /\ pc' = "polling") =>
          /\ report'.printed <=> ~ IsZero(last.Timestamp)
          /\ report'.printed =>
                /\ report'.estimate <=> covered >= 36000
                /\ report'.estimate =>
                      LET open == WholeHours(report'.target - last.Timestamp)
                          done == WholeHours(covered)
                          q == report'.remaining
                      IN  /\ q * done <= open * report'.duration
                          /\ open * report'.duration < (q + 1) * done]_vars

\* An hour and a half is covered, time has passed, and the report carries
\* an estimate.
C26_Witness ==
    /\ pc = "polling"
    /\ covered = 54000
    /\ report.printed
    /\ report.current = last.Timestamp
    /\ report.estimate
    /\ report.remaining > 0

\* Where the run began in feed time: the timestamp of the cursor it read
\* from the store, as its first request carries it, or, from an empty
\* store, the timestamp of the first record of the feed.
StartingPoint ==
    IF Parse(requests[1].since) # 0 THEN Parse(requests[1].since)
    ELSE feed[1].Timestamp

\* C32: when either loop commits a batch, covered becomes the timestamp of
\* the new cursor minus the starting point of the run, which from an empty
\* store is the timestamp of the first record inserted; covered is not
\* negative and does not decrease when the cursor does not go back.
C32_CoveredSpan ==
    [][(batches' = batches + 1) =>
          /\ covered' = last'.Timestamp - StartingPoint'
          /\ IsZero(last.Timestamp) =>
                (batches = 0 /\ fetched[1].Timestamp = StartingPoint')
          /\ (last'.Timestamp >= last.Timestamp) =>
                (covered' >= covered /\ covered >= 0)]_vars

\* SynchronizeDatabase resumed from a stored cursor and committed two
\* batches: covered is the span from that cursor to the present one.
C32_Witness ==
    /\ pc = "polling"
    /\ batches = 2
    /\ Parse(requests[1].since) # 0
    /\ covered > 0
    /\ covered = last.Timestamp - Parse(requests[1].since)

\* The sum of a count per module.
RECURSIVE TotalUpTo(_, _)
TotalUpTo(f, n) == IF n = 0 THEN 0 ELSE f[n] + TotalUpTo(f, n - 1)
Total(f) == TotalUpTo(f, MaxModules)

\* What every state of the download command satisfies: no module is
\* received twice, sent on twice or handled twice, a result is sent only
\* for a module received and handled only when sent, `remaining` is the
\* number of modules not yet handled, nothing panics, and the command can
\* always go on until it has returned; when it has returned every module
\* to download was received, sent on and handled once and `remaining` is 0.
PoolExactlyOnce ==
    /\ \A m \in Modules :
          /\ takes[m] <= (IF m \in Range(toDownload) THEN 1 ELSE 0)
          /\ yields[m] <= takes[m]
          /\ handles[m] <= yields[m]
    /\ main.pc # "panic"
    /\ (main.pc # "start") => remaining = Len(toDownload) - Total(handles)
    /\ (main.pc = "returned") =>
          /\ \A m \in Range(toDownload) :
                takes[m] = 1 /\ yields[m] = 1 /\ handles[m] = 1
          /\ remaining = 0
          /\ saver = "done"
          /\ \A w \in Workers : workers[w].pc = "done"
    /\ (main.pc # "returned") => ENABLED NextDownload

\* C31: for every list of modules to download each module is received
\* from `modules` by exactly one worker, yields exactly one dlResult and
\* that result is handled exactly once by the saver; only the saver, one
\* result at a time, changes `remaining` once it is set, and `remaining`
\* is 0 when the command returns.
C31_WorkerPoolExactlyOnce ==
    /\ []PoolExactlyOnce
    /\ [][(remaining' # remaining /\ main.pc # "start") =>
             /\ saver = "range"
             /\ remaining' = remaining - 1
             /\ Total(handles') = Total(handles) + 1
             /\ UNCHANGED <<workers, main, takes, yields>>]_vars

\* More modules than workers: the command has returned and every module
\* went through once, one worker having taken two of them.
C31_Witness ==
    /\ main.pc = "returned"
    /\ Len(toDownload) = MaxModules
    /\ Len(toDownload) > NumWorkers
    /\ remaining = 0
    /\ \A m \in Modules : takes[m] = 1 /\ yields[m] = 1 /\ handles[m] = 1
    /\ cache # {}

\* How often the Category at address c stands in the Categories of the one
\* at address q.
TimesIn(q, c) ==
    Cardinality({i \in 1..Len(heap[q].Categories) : heap[q].Categories[i] = c})

\* The tree the parsers build: no walk reads through a nil Parent; Root has
\* no Parent; every other Category has a Parent made before it whose Level
\* is smaller than its own, stands once in that Parent's Categories and in
\* no other Category's.
CategoryTree ==
    /\ outcome # "panic"
    /\ cat \in 1..Len(heap)
    /\ heap[1].Parent = 0
    /\ \A c \in 2..Len(heap) :
          /\ heap[c].Parent \in 1..(c - 1)
          /\ heap[heap[c].Parent].Level < heap[c].Level
          /\ \A q \in 1..Len(heap) :
                TimesIn(q, c) = (IF q = heap[c].Parent THEN 1 ELSE 0)

\* AddSource has been called on the parsed Source.
Checked == outcome \notin {"parsing", "parsed"}

====
